---- MODULE Spec2Model ----
(***************************************************************************)
(* Model of backend/main.py: the background refresh loop                   *)
(* (_processing_loop) that polls process_stream_once, derives tips with    *)
(* generate_insights and stores the result in the module global            *)
(* LATEST_STATS, together with the /api/stats handler that reads it.       *)
(*                                                                         *)
(* The loop is a single asyncio task.  Its position is kept in pc; every   *)
(* statement of the loop body is a step of its own, so a request handler   *)
(* may run between any two statements of the loop (a superset of the       *)
(* interleavings the event loop allows, which switches tasks only at the   *)
(* two awaits).                                                            *)
(***************************************************************************)
EXTENDS Integers, FiniteSets, Sequences, TLC

VARIABLES
    LATEST_STATS,   \* the module global (main.py:45)
    pc,             \* position of the _processing_loop task
    stats,          \* local of _processing_loop (main.py:65/67)
    tips,           \* local of _processing_loop (main.py:71/73)
    e,              \* the exception bound by "except Exception as e" (main.py:80)
    resp,           \* the last response of GET /api/stats
    cycles,         \* history: completed cycles (saturates at MaxCycles)
    outcome,        \* history: what the external calls of the current cycle did
    prevResult,     \* history: LATEST_STATS when the current cycle started
    servedAt,       \* history: pc and cycles when resp was produced
    files,          \* the HTML files under frontend/ (main.py:95)
    pageResp,       \* the last response of a page route
    lastGood,       \* history: stats and tips stored by the last "ok" assignment
    insightsCalls,  \* history: arguments of the generate_insights calls of this cycle
    outstanding,    \* history: snapshot calls that have not returned or raised
    sleeps          \* history: sleeps finished since the last cycle ended

vars == <<LATEST_STATS, pc, stats, tips, e, resp, cycles, outcome, prevResult, servedAt,
          files, pageResp, lastGood, insightsCalls, outstanding, sleeps>>

\* the state of the refresh loop and of /api/stats
loopVars == <<LATEST_STATS, pc, stats, tips, e, resp, cycles, outcome, prevResult, servedAt,
              lastGood, insightsCalls, outstanding, sleeps>>

\* the history of the calls the loop made
histVars == <<lastGood, insightsCalls, outstanding, sleeps>>

\* the state of the page routes
pageVars == <<files, pageResp>>

(***************************************************************************)
(* Bounds                                                                  *)
(***************************************************************************)
MaxRally == 1       \* snapshots carry rally_count in 0..MaxRally
MaxCycles == 3      \* the cycle counter saturates here

(***************************************************************************)
(* Values                                                                  *)
(***************************************************************************)
\* Python's None
None == [nil |-> TRUE]

\* the empty dict {}
EmptyDict == [k \in {} |-> k]

\* a local name that has not been assigned yet
Unbound == [unbound |-> TRUE]

\* no exception is bound to e
NoExc == "none"

\* no /api/stats response has been produced yet
NoResp == [code |-> 0]

\* what process_stream_once may return: an opaque stats dict
Snapshots == {[rally_count |-> n] : n \in 0..MaxRally}

\* exception classes the external functions may raise (subclasses of Exception)
Errors == {"ValueError", "TimeoutError"}

\* repr(e) of an exception raised without arguments
Repr(x) == x \o "()"

\* dict.get(key, default)
Get(d, key, default) == IF key \in DOMAIN d THEN d[key] ELSE default

\* the tips generate_insights returns for a stats dict when it does not raise
generate_insights(s) == [tips |-> <<s.rally_count>>]

\* "except Exception" of the loop: the raised class is a subclass of Exception
ExceptionMatchesNarrow(x) == x = "ValueError"

ExceptionMatches(x) == x \in Errors

\* tips stored when generate_insights raises (main.py:73)
PreviousTips == LATEST_STATS.tips

InsightsFailedMarker == [error |-> "insights generation failed"]

\* initial value of the global (main.py:45)
InitialStatsNone == None

InitialStats == [status |-> "starting", stats |-> EmptyDict, tips |-> EmptyDict]

\* the dict assigned after a successful snapshot call (main.py:75-79)
OkResultStaleStats(s, t) == [status |-> "ok", stats |-> LATEST_STATS.stats, tips |-> t]

OkResultStatsOnly(s, t) == [status |-> "ok", stats |-> s, tips |-> LATEST_STATS.tips]

OkResultUpdate(s, t) == [LATEST_STATS EXCEPT !.status = "ok", !.stats = s, !.tips = t]

OkResult(s, t) == [status |-> "ok", stats |-> s, tips |-> t]

\* the dict assigned in the except branch (main.py:82-87)
ErrorResultKeepStatus(x) ==
    [status |-> LATEST_STATS.status,
     error  |-> Repr(x),
     stats  |-> Get(LATEST_STATS, "stats", EmptyDict),
     tips   |-> Get(LATEST_STATS, "tips", EmptyDict)]

ErrorResultCleared(x) ==
    [status |-> "error",
     error  |-> Repr(x),
     stats  |-> EmptyDict,
     tips   |-> EmptyDict]

ErrorResultOk(x) ==
    [status |-> "ok",
     error  |-> Repr(x),
     stats  |-> Get(LATEST_STATS, "stats", EmptyDict),
     tips   |-> Get(LATEST_STATS, "tips", EmptyDict)]

ErrorResultNoTips(x) ==
    [status |-> "error",
     error  |-> Repr(x),
     stats  |-> Get(LATEST_STATS, "stats", EmptyDict),
     tips   |-> EmptyDict]

ErrorResult(x) ==
    [status |-> "error",
     error  |-> Repr(x),
     stats  |-> Get(LATEST_STATS, "stats", EmptyDict),
     tips   |-> Get(LATEST_STATS, "tips", EmptyDict)]

\* the response of api_stats for a value of the global (main.py:130-132)
ApiStatsResponseStarting(ls) ==
    IF ls = None \/ ls.status = "starting"
    THEN [code |-> 503, body |-> [detail |-> "Stats not available yet"]]
    ELSE [code |-> 200, body |-> ls]

ApiStatsResponse(ls) ==
    IF ls = None
    THEN [code |-> 503, body |-> [detail |-> "Stats not available yet"]]
    ELSE [code |-> 200, body |-> ls]

(***************************************************************************)
(* The HTML pages                                                          *)
(***************************************************************************)
\* the files the page routes read from frontend/ (main.py:104-124)
PageFiles == {"analysis.html", "technique.html", "tactical.html", "highlights.html"}

\* the page routes and the file each one reads
PageRoutes ==
    {[route |-> "/",                file |-> "analysis.html"],
     [route |-> "/analysis.html",   file |-> "analysis.html"],
     [route |-> "/technique.html",  file |-> "technique.html"],
     [route |-> "/tactical.html",   file |-> "tactical.html"],
     [route |-> "/highlights.html", file |-> "highlights.html"]}

\* a path that does not exist, and a file with its bytes
Absent == [exists |-> FALSE]

File(b) == [exists |-> TRUE, bytes |-> b]

\* file contents, byte by byte: "CR" and "LF" are the bytes 0x0D and 0x0A,
\* "xFF" is a byte that no UTF-8 text contains
Contents == {<<"a", "LF", "b">>, <<"a", "CR", "LF", "b">>, <<"a", "xFF">>}

\* the frontend directory when the server starts
InitialFiles ==
    [n \in PageFiles |->
        IF n \in {"analysis.html", "technique.html"}
        THEN File(<<"a", "LF", "b">>)
        ELSE Absent]

\* no page has been requested yet
NoPage == [code |-> 0]

\* the bytes decode as UTF-8
IsUtf8(b) == \A i \in 1..Len(b) : b[i] # "xFF"

\* text-mode reading translates "\r\n" and "\r" to "\n" (open(..., newline=None))
RECURSIVE UniversalNewlines(_)
UniversalNewlines(b) ==
    IF b = << >> THEN << >>
    ELSE IF Head(b) = "CR"
         THEN IF Len(b) >= 2 /\ b[2] = "LF"
              THEN <<"LF">> \o UniversalNewlines(SubSeq(b, 3, Len(b)))
              ELSE <<"LF">> \o UniversalNewlines(Tail(b))
         ELSE <<Head(b)>> \o UniversalNewlines(Tail(b))

\* _read_frontend_html(name) as the response the route gives: 404 when the
\* path does not exist, the decoded text otherwise; a UnicodeDecodeError of
\* read_text is not caught and the server answers 500
_read_frontend_html(fs, name) ==
    IF ~fs[name].exists
    THEN [code |-> 404, body |-> [detail |-> name \o " not found"]]
    ELSE IF ~IsUtf8(fs[name].bytes)
         THEN [code |-> 500, body |-> [detail |-> "Internal Server Error"]]
         ELSE [code |-> 200, body |-> [html |-> UniversalNewlines(fs[name].bytes)]]

\* the cycle counter after one more completed cycle
Completed(n) == IF n < MaxCycles THEN n + 1 ELSE n

(***************************************************************************)
(* Initial state: the module has been imported, the server has not run     *)
(* its startup event yet.                                                  *)
(***************************************************************************)
Init ==
    /\ LATEST_STATS = InitialStats
    /\ pc = "idle"
    /\ stats = Unbound
    /\ tips = Unbound
    /\ e = NoExc
    /\ resp = NoResp
    /\ cycles = 0
    /\ outcome = "none"
    /\ prevResult = InitialStats
    /\ servedAt = [pc |-> "idle", cycles |-> 0]
    /\ files = InitialFiles
    /\ pageResp = NoPage
    /\ lastGood = [stats |-> EmptyDict, tips |-> EmptyDict]
    /\ insightsCalls = << >>
    /\ outstanding = 0
    /\ sleeps = 0

(***************************************************************************)
(* The refresh loop                                                        *)
(***************************************************************************)
\* startup_event: create the _processing_loop task
startup_event ==
    /\ pc = "idle"
    /\ pc' = "call"
    /\ UNCHANGED <<LATEST_STATS, stats, tips, e, resp, cycles, outcome, prevResult, servedAt>>
    /\ UNCHANGED histVars
    /\ UNCHANGED pageVars

CallSnapshotMarks ==
    /\ pc = "call"
    /\ pc' = "await_snapshot"
    /\ outcome' = "pending"
    /\ prevResult' = LATEST_STATS
    /\ LATEST_STATS' = [LATEST_STATS EXCEPT !.status = "starting"]
    /\ UNCHANGED <<stats, tips, e, resp, cycles, servedAt>>
    /\ insightsCalls' = << >>
    /\ outstanding' = outstanding + 1
    /\ UNCHANGED <<lastGood, sleeps>>
    /\ UNCHANGED pageVars

\* top of the while body: call process_stream_once (directly or through
\* asyncio.to_thread) and suspend in the await
CallSnapshot ==
    /\ pc = "call"
    /\ pc' = "await_snapshot"
    /\ outcome' = "pending"
    /\ prevResult' = LATEST_STATS
    /\ UNCHANGED <<LATEST_STATS, stats, tips, e, resp, cycles, servedAt>>
    /\ insightsCalls' = << >>
    /\ outstanding' = outstanding + 1
    /\ UNCHANGED <<lastGood, sleeps>>
    /\ UNCHANGED pageVars

\* the awaited call returns s
SnapshotReturns(s) ==
    /\ pc = "await_snapshot"
    /\ stats' = s
    /\ pc' = "insights"
    /\ outcome' = "snapshot_ok"
    /\ UNCHANGED <<LATEST_STATS, tips, e, resp, cycles, prevResult, servedAt>>
    /\ outstanding' = outstanding - 1
    /\ UNCHANGED <<lastGood, insightsCalls, sleeps>>
    /\ UNCHANGED pageVars

\* the awaited call raises x
SnapshotRaises(x) ==
    /\ pc = "await_snapshot"
    /\ outcome' = "snapshot_failed"
    /\ IF ExceptionMatches(x)
       THEN /\ e' = x
            /\ pc' = "store_error"
       ELSE /\ e' = e
            /\ pc' = "crashed"
    /\ UNCHANGED <<LATEST_STATS, stats, tips, resp, cycles, prevResult, servedAt>>
    /\ outstanding' = outstanding - 1
    /\ UNCHANGED <<lastGood, insightsCalls, sleeps>>
    /\ UNCHANGED pageVars

\* tips = generate_insights(stats) returns
InsightsReturns ==
    /\ pc = "insights"
    /\ tips' = generate_insights(stats)
    /\ pc' = "store_ok"
    /\ UNCHANGED <<LATEST_STATS, stats, e, resp, cycles, outcome, prevResult, servedAt>>
    /\ insightsCalls' = Append(insightsCalls, stats)
    /\ UNCHANGED <<lastGood, outstanding, sleeps>>
    /\ UNCHANGED pageVars

InsightsRaisesRetry(x) ==
    /\ pc = "insights"
    /\ outcome' = "insights_failed"
    /\ tips' = InsightsFailedMarker
    /\ pc' = "insights"
    /\ UNCHANGED <<LATEST_STATS, stats, e, resp, cycles, prevResult, servedAt>>
    /\ insightsCalls' = Append(insightsCalls, stats)
    /\ UNCHANGED <<lastGood, outstanding, sleeps>>
    /\ UNCHANGED pageVars

\* generate_insights(stats) raises x: the inner except assigns the marker
InsightsRaises(x) ==
    /\ pc = "insights"
    /\ outcome' = "insights_failed"
    /\ IF ExceptionMatches(x)
       THEN /\ tips' = InsightsFailedMarker
            /\ pc' = "store_ok"
       ELSE /\ tips' = tips
            /\ pc' = "crashed"
    /\ UNCHANGED <<LATEST_STATS, stats, e, resp, cycles, prevResult, servedAt>>
    /\ insightsCalls' = Append(insightsCalls, stats)
    /\ UNCHANGED <<lastGood, outstanding, sleeps>>
    /\ UNCHANGED pageVars

\* LATEST_STATS = {"status": "ok", ...}, then on to the sleep
StoreOk ==
    /\ pc = "store_ok"
    /\ LATEST_STATS' = OkResult(stats, tips)
    /\ pc' = "sleep"
    /\ cycles' = Completed(cycles)
    /\ UNCHANGED <<stats, tips, e, resp, outcome, prevResult, servedAt>>
    /\ lastGood' = [stats |-> stats, tips |-> tips]
    /\ sleeps' = 0
    /\ UNCHANGED <<insightsCalls, outstanding>>
    /\ UNCHANGED pageVars

StoreErrorNoSleep ==
    /\ pc = "store_error"
    /\ LATEST_STATS' = ErrorResult(e)
    /\ e' = NoExc
    /\ pc' = "call"
    /\ cycles' = Completed(cycles)
    /\ UNCHANGED <<stats, tips, resp, outcome, prevResult, servedAt>>
    /\ sleeps' = 0
    /\ UNCHANGED <<lastGood, insightsCalls, outstanding>>
    /\ UNCHANGED pageVars

\* LATEST_STATS = {"status": "error", ...}; e is unbound when the except
\* block ends; then on to the sleep
StoreError ==
    /\ pc = "store_error"
    /\ LATEST_STATS' = ErrorResult(e)
    /\ e' = NoExc
    /\ pc' = "sleep"
    /\ cycles' = Completed(cycles)
    /\ UNCHANGED <<stats, tips, resp, outcome, prevResult, servedAt>>
    /\ sleeps' = 0
    /\ UNCHANGED <<lastGood, insightsCalls, outstanding>>
    /\ UNCHANGED pageVars

\* asyncio.sleep(PROCESSING_INTERVAL_SECONDS) returns: next iteration
Wake ==
    /\ pc = "sleep"
    /\ pc' = "call"
    /\ UNCHANGED <<LATEST_STATS, stats, tips, e, resp, cycles, outcome, prevResult, servedAt>>
    /\ sleeps' = sleeps + 1
    /\ UNCHANGED <<lastGood, insightsCalls, outstanding>>
    /\ UNCHANGED pageVars

(***************************************************************************)
(* GET /api/stats.  The server accepts requests once startup has run.      *)
(***************************************************************************)
api_stats_blocking ==
    /\ pc \notin {"idle", "await_snapshot"}
    /\ resp' = ApiStatsResponse(LATEST_STATS)
    /\ servedAt' = [pc |-> pc, cycles |-> cycles]
    /\ UNCHANGED <<LATEST_STATS, pc, stats, tips, e, cycles, outcome, prevResult>>
    /\ UNCHANGED histVars
    /\ UNCHANGED pageVars

api_stats ==
    /\ pc # "idle"
    /\ resp' = ApiStatsResponse(LATEST_STATS)
    /\ servedAt' = [pc |-> pc, cycles |-> cycles]
    /\ UNCHANGED <<LATEST_STATS, pc, stats, tips, e, cycles, outcome, prevResult>>
    /\ UNCHANGED histVars
    /\ UNCHANGED pageVars

(***************************************************************************)
(* The page routes.  Each reads its file when the request is handled.      *)
(***************************************************************************)
PageRequest(route, name) ==
    /\ pc # "idle"
    /\ pageResp' = [route |-> route] @@ _read_frontend_html(files, name)
    /\ UNCHANGED files
    /\ UNCHANGED loopVars

home == PageRequest("/", "analysis.html")

analysis_page == PageRequest("/analysis.html", "analysis.html")

technique_page == PageRequest("/technique.html", "technique.html")

tactical_page == PageRequest("/tactical.html", "tactical.html")

highlights_page == PageRequest("/highlights.html", "highlights.html")

PageStep ==
    \/ home
    \/ analysis_page
    \/ technique_page
    \/ tactical_page
    \/ highlights_page

(***************************************************************************)
(* The file system under frontend/, changed from outside the server        *)
(***************************************************************************)
\* a file is created or overwritten
WriteFile(name, b) ==
    /\ files' = [files EXCEPT ![name] = File(b)]
    /\ UNCHANGED pageResp
    /\ UNCHANGED loopVars

\* a file is removed
DeleteFile(name) ==
    /\ files[name].exists
    /\ files' = [files EXCEPT ![name] = Absent]
    /\ UNCHANGED pageResp
    /\ UNCHANGED loopVars

FsStep ==
    \/ \E name \in PageFiles, b \in Contents : WriteFile(name, b)
    \/ \E name \in PageFiles : DeleteFile(name)

LoopStep ==
    \/ startup_event
    \/ CallSnapshot
    \/ \E s \in Snapshots : SnapshotReturns(s)
    \/ \E x \in Errors : SnapshotRaises(x)
    \/ InsightsReturns
    \/ \E x \in Errors : InsightsRaises(x)
    \/ StoreOk
    \/ StoreError
    \/ Wake

Next ==
    \/ LoopStep
    \/ api_stats

Spec == Init /\ [][Next]_vars

\* the event loop runs the task whenever it can take a step, the sleep timer
\* fires, and every snapshot call eventually returns or raises
FairSpec == Spec /\ WF_vars(LoopStep)

\* the whole server: the loop and every route, over the frontend directory
\* as it is when the server starts
ServerNext ==
    \/ Next
    \/ PageStep

ServerSpec == Init /\ [][ServerNext]_vars

\* the pages while the frontend directory is edited: the server has started
\* and the loop is suspended in its snapshot call
PageNext ==
    \/ startup_event
    \/ CallSnapshot
    \/ PageStep
    \/ FsStep

PageSpec == Init /\ [][PageNext]_vars

(***************************************************************************)
(* Properties                                                              *)
(***************************************************************************)
\* loop positions between the start of a cycle and its assignment
InCycle == {"await_snapshot", "insights", "store_ok", "store_error"}

\* the stats and tips of r were stored together by one cycle: both are the
\* startup values, or the tips are what that cycle obtained for those stats
PairFromOneCycle(r) ==
    \/ /\ r.stats = [k \in {} |-> k]
       /\ r.tips = [k \in {} |-> k]
    \/ /\ r.stats \in Snapshots
       /\ r.tips \in {[tips |-> <<r.stats.rally_count>>],
                      [error |-> "insights generation failed"]}

\* C1: the status is always one of "starting", "ok", "error", and it is
\* "starting" exactly as long as no cycle has completed.
C1_StatusDomain ==
    /\ LATEST_STATS.status \in {"starting", "ok", "error"}
    /\ (LATEST_STATS.status = "starting") <=> (cycles = 0)

C1_Witness ==
    /\ pc = "sleep"
    /\ cycles = 1
    /\ LATEST_STATS.status = "error"
    /\ prevResult.status = "starting"

\* C2: after a cycle whose snapshot call raised, the status is "error" and
\* the stored stats and tips are those stored when the cycle began.
C2_FailureCarriesForward ==
    (pc = "sleep" /\ outcome = "snapshot_failed") =>
        /\ LATEST_STATS.status = "error"
        /\ LATEST_STATS.stats = prevResult.stats
        /\ LATEST_STATS.tips = prevResult.tips

C2_Witness ==
    /\ pc = "sleep"
    /\ outcome = "snapshot_failed"
    /\ prevResult.status = "ok"
    /\ LATEST_STATS.stats \in Snapshots

\* C3: after a cycle whose snapshot call returned, the global is exactly
\* status "ok" with that cycle's snapshot and the tips that cycle obtained
\* for it, whatever was stored before.
C3_SuccessReplaces ==
    (pc = "sleep" /\ outcome \in {"snapshot_ok", "insights_failed"}) =>
        LATEST_STATS =
            [status |-> "ok",
             stats  |-> stats,
             tips   |-> IF outcome = "snapshot_ok"
                        THEN generate_insights(stats)
                        ELSE [error |-> "insights generation failed"]]

C3_Witness ==
    /\ pc = "sleep"
    /\ outcome = "snapshot_ok"
    /\ prevResult.status = "error"
    /\ prevResult.stats \in Snapshots
    /\ prevResult.stats # stats
    /\ LATEST_STATS.stats = stats

\* C4 as stated: a request served before the first cycle completes is
\* answered with 503.
C4_Original ==
    (resp # NoResp /\ servedAt.cycles = 0) => resp.code = 503

\* C4 amended: every request is answered 200 with the value the global has
\* at that moment; before the first cycle completes that is the startup
\* value with status "starting".
C4_Amended ==
    /\ [][api_stats => resp' = [code |-> 200, body |-> LATEST_STATS]]_vars
    /\ []((resp # NoResp /\ servedAt.cycles = 0) =>
              resp = [code |-> 200,
                      body |-> [status |-> "starting",
                                stats  |-> [k \in {} |-> k],
                                tips   |-> [k \in {} |-> k]]])

C4_Witness ==
    /\ resp.code = 200
    /\ servedAt.cycles = 0
    /\ resp.body.status = "starting"
    /\ servedAt.pc = "await_snapshot"

\* C5: the global is never None and no request is answered 503.
C5_NeverNone ==
    /\ LATEST_STATS # None
    /\ resp.code # 503

C5_Witness ==
    /\ resp.code = 200
    /\ resp.body.status = "error"
    /\ LATEST_STATS.status = "ok"
    /\ servedAt.pc = "sleep"

\* C6: what a reader can see is always a complete result: until the
\* assignment of a cycle the global is still the complete previous result,
\* after it the complete new one, and the stats and tips of the global and of
\* every response were stored together by one cycle.
C6_NoPartialResult ==
    /\ PairFromOneCycle(LATEST_STATS)
    /\ resp # NoResp => (resp.code = 200 /\ PairFromOneCycle(resp.body))
    /\ pc \in InCycle => LATEST_STATS = prevResult
    /\ (pc = "sleep" /\ outcome # "snapshot_failed") =>
           (LATEST_STATS.stats = stats /\ LATEST_STATS.tips = tips)

C6_Witness ==
    /\ pc = "store_ok"
    /\ servedAt.pc = "store_ok"
    /\ resp.body = prevResult
    /\ prevResult.stats \in Snapshots
    /\ prevResult.stats # stats
    /\ prevResult.tips # tips

\* C7: after a cycle whose snapshot call returned and whose transformer
\* raised, the global has status "ok", the new snapshot and the failure
\* marker as tips.
C7_InsightsFailure ==
    (pc = "sleep" /\ outcome = "insights_failed") =>
        /\ LATEST_STATS.status = "ok"
        /\ LATEST_STATS.stats = stats
        /\ LATEST_STATS.tips = [error |-> "insights generation failed"]

C7_Witness ==
    /\ pc = "sleep"
    /\ outcome = "insights_failed"
    /\ prevResult.status = "ok"
    /\ prevResult.stats # stats
    /\ prevResult.tips = generate_insights(prevResult.stats)
    /\ LATEST_STATS.stats = stats

\* C8 as stated: whenever either external function raised during a cycle the
\* status after the cycle is "error".
C8_Original ==
    (pc = "sleep" /\ outcome \in {"snapshot_failed", "insights_failed"}) =>
        LATEST_STATS.status = "error"

\* C8 amended: exceptions from either external function are caught in the
\* loop; a raising snapshot call gives status "error" with the description of
\* the exception, a raising transformer gives status "ok" with the failure
\* recorded in the tips.
C8_Amended ==
    /\ pc # "crashed"
    /\ (pc = "sleep" /\ outcome = "snapshot_failed") =>
           /\ LATEST_STATS.status = "error"
           /\ LATEST_STATS.error \in {"ValueError()", "TimeoutError()"}
    /\ (pc = "sleep" /\ outcome = "insights_failed") =>
           /\ LATEST_STATS.status = "ok"
           /\ "error" \in DOMAIN LATEST_STATS.tips
           /\ "error" \notin DOMAIN LATEST_STATS

C8_Witness ==
    /\ pc = "sleep"
    /\ outcome = "insights_failed"
    /\ prevResult.status = "error"
    /\ LATEST_STATS.status = "ok"

\* C9: the loop never stops on an exception of either external function,
\* and, when every snapshot call returns or raises, a new cycle starts again
\* and again: every sleep is followed by the next snapshot call.
C9_LoopNeverStops ==
    /\ [](pc # "crashed")
    /\ []<>(pc = "await_snapshot")
    /\ (pc = "sleep") ~> (pc = "await_snapshot")

C9_Witness ==
    /\ pc = "await_snapshot"
    /\ cycles >= 2
    /\ prevResult.status = "error"
    /\ prevResult.stats \in Snapshots

FileOfRoute(r) == (CHOOSE p \in PageRoutes : p.route = r).file

\* C11: a page request is answered from the file as it is when the request
\* is handled: 200 with exactly the bytes of the file when it exists, 404
\* when it does not.
C11_PageFromFile ==
    [][pageResp' # pageResp =>
          LET f == files[FileOfRoute(pageResp'.route)] IN
              IF f.exists
              THEN pageResp'.code = 200 /\ pageResp'.body = [html |-> f.bytes]
              ELSE pageResp'.code = 404]_vars

\* C12: LATEST_STATS changes only in the assignment that ends a cycle; no
\* request, whatever it answers, changes it, and neither does the loop while
\* the snapshot call is outstanding or when the sleep ends.
C12_SingleWriter ==
    [][/\ (LATEST_STATS' # LATEST_STATS) =>
              (pc \in {"store_ok", "store_error"} /\ pc' = "sleep")
       /\ (resp' # resp \/ servedAt' # servedAt \/ pageResp' # pageResp) =>
              (LATEST_STATS' = LATEST_STATS /\ pc' = pc)
       /\ (pc \in {"await_snapshot", "sleep", "call"}) =>
              LATEST_STATS' = LATEST_STATS]_vars

C12_Witness ==
    /\ pc = "sleep"
    /\ LATEST_STATS # prevResult
    /\ resp.code = 200
    /\ resp.body = prevResult
    /\ pageResp.code = 404
    /\ servedAt.pc = "await_snapshot"

\* C13: while the status is "error" the stored stats and tips are those the
\* last successful cycle stored (the failure marker included), and the empty
\* startup values when no cycle has succeeded.
C13_LastGoodVisible ==
    LATEST_STATS.status = "error" =>
        /\ LATEST_STATS.stats = lastGood.stats
        /\ LATEST_STATS.tips = lastGood.tips
        /\ (\/ lastGood.stats \in Snapshots
            \/ lastGood = [stats |-> [k \in {} |-> k], tips |-> [k \in {} |-> k]])

C13_Witness ==
    /\ pc = "sleep"
    /\ outcome = "snapshot_failed"
    /\ prevResult.status = "error"
    /\ LATEST_STATS.status = "error"
    /\ LATEST_STATS.stats \in Snapshots
    /\ LATEST_STATS.tips = [error |-> "insights generation failed"]

\* C14: in a cycle generate_insights is called at most once, only after the
\* snapshot call of that cycle returned and with the stats it returned; a
\* cycle whose snapshot call raised does not call it.
C14_TransformerOncePerCycle ==
    /\ Len(insightsCalls) <= 1
    /\ Len(insightsCalls) = 1 =>
           /\ outcome \in {"snapshot_ok", "insights_failed"}
           /\ insightsCalls[1] = stats
    /\ outcome \in {"none", "pending", "snapshot_failed"} => insightsCalls = << >>
    /\ pc = "insights" => insightsCalls = << >>
    /\ pc = "store_ok" => Len(insightsCalls) = 1

C14_Witness ==
    /\ pc = "store_ok"
    /\ insightsCalls = <<stats>>
    /\ prevResult.status = "error"
    /\ prevResult.stats \in Snapshots
    /\ prevResult.stats # stats

\* C15: at most one snapshot call is outstanding, and it is outstanding
\* exactly while the loop is suspended in it; a snapshot call starts only
\* when none is outstanding and, after the first, exactly one sleep has
\* finished since the previous cycle ended; every cycle, "ok" or "error",
\* ends in the sleep; the loop leaves the await only when the call returns
\* or raises.
C15_SequentialPaced ==
    /\ [](outstanding \in {0, 1} /\ (outstanding = 1 <=> pc = "await_snapshot"))
    /\ [][/\ (outstanding' > outstanding) =>
                 (outstanding = 0 /\ sleeps = IF cycles = 0 THEN 0 ELSE 1)
          /\ (pc \in {"store_ok", "store_error"} /\ pc' # pc) => pc' = "sleep"
          /\ (pc = "await_snapshot" /\ pc' # pc) =>
                 (outstanding' = 0 /\ pc' \in {"insights", "store_error"})]_vars

C15_Witness ==
    /\ pc = "await_snapshot"
    /\ outstanding = 1
    /\ sleeps = 1
    /\ cycles >= 2
    /\ prevResult.status = "error"

\* C16: the global, and every /api/stats response, has an "error" key
\* exactly when its status is "error".
C16_ErrorFieldIffError ==
    /\ ("error" \in DOMAIN LATEST_STATS) <=> (LATEST_STATS.status = "error")
    /\ resp # NoResp =>
           (("error" \in DOMAIN resp.body) <=> (resp.body.status = "error"))

C16_Witness ==
    /\ pc = "sleep"
    /\ LATEST_STATS.status = "ok"
    /\ prevResult.status = "error"
    /\ "error" \in DOMAIN prevResult
    /\ resp.code = 200
    /\ resp.body = LATEST_STATS
    /\ servedAt.pc = "sleep"

====
